---- MODULE Spec2Model ----
(***************************************************************************)
(* pulsekit: the graph model (graph.py), the reversed-graph Dijkstra       *)
(* preprocessing (dijkstra.py) and the Pulse search engine (pulse.py),     *)
(* with the reference strategy callbacks of tests/test_pulse.py.           *)
(*                                                                         *)
(* Node indices are Python's (0-based).  A dict that the code iterates is  *)
(* a sequence in insertion order; a dict that is only looked up is a       *)
(* function.  Floats are integers (all link attributes are integral) and   *)
(* float('inf') is the saturating value Inf.                               *)
(***************************************************************************)
EXTENDS Integers, Sequences, FiniteSets, TLC

VARIABLES
    graph,      \* the Graph under test / Parameters.graph
    call,       \* the last call made: "none" before any
    args,       \* its arguments
    ret,        \* SpecDijkstra: its return value
    parameters, \* Pulse.parameters
    pc,         \* the engine: "new", "invalid" (construction raised), "idle", "running"
    raised,     \* the exception the last call raised to its caller, "none" if none
    preprocessing,              \* Pulse.preprocessing
    pulse_queue,                \* Pulse.pulse_queue, the heap's list
    current_optimal_path,       \* Pulse.current_optimal_path
    current_optimal_objective,  \* Pulse.current_optimal_objective
    optimal_path,               \* Pulse.optimal_path
    optimal_objective,          \* Pulse.optimal_objective
    cells,      \* the nested accumulator dicts run() has created, by identity
    stack,      \* the frames of run() and _propagate_pulse, innermost last
    evaluated,  \* the pruning predicates invoked at the node entered last
    ncalls,     \* how many preprocess()/run() calls were made; SpecGraph: how many
                \* mutating calls since reverse_graph()
    prep_ok,    \* a preprocess() call has completed without raising
    pushes,     \* the queue insertions of the current (or last) run
    reversed_g, \* SpecGraph: the Graph reverse_graph() returned, <<>> before the call
    dicts       \* SpecGraph: the attribute dicts passed to add_link, by identity

libVars == <<call, args, ret>>

engineVars == <<parameters, pc, raised, preprocessing, pulse_queue, current_optimal_path,
                current_optimal_objective, optimal_path, optimal_objective, cells, stack,
                evaluated, ncalls, prep_ok, pushes>>

graphVars == <<reversed_g, dicts>>

vars == <<graph, libVars, engineVars, graphVars>>

\* ------------------------------------------------------------------ bounds
\* how many of the candidate links a graph drawn for the engine may hold
MaxLinks == 5

\* how many of them a graph drawn for the library calls may hold
MaxLibraryLinks == 6

\* float('inf')
Inf == 1000000

Plus(a, b) == IF a >= Inf \/ b >= Inf THEN Inf ELSE a + b

\* ------------------------------------------------------------ graph.py
Link(deterministic, random) == [deterministic |-> deterministic, random |-> random]

Node(name) == [name |-> name, links |-> <<>>]

\* Graph.__init__
EmptyGraph == [nodes |-> <<>>, name_to_index |-> <<>>]

NodeCount(g) == Cardinality(DOMAIN g.nodes)

NodeIds(g) == DOMAIN g.nodes

\* Graph.create_node taking the next index from the lookup's size
create_node_by_lookup(g, name) ==
    LET n == Cardinality(DOMAIN g.name_to_index)
    IN  [nodes |-> (n :> Node(name)) @@ g.nodes,
         name_to_index |-> (name :> n) @@ g.name_to_index]

\* Graph.create_node: the graph after the call; the call returns NodeCount(g)
create_node(g, name) ==
    LET n == NodeCount(g)
    IN  [nodes |-> (n :> Node(name)) @@ g.nodes,
         name_to_index |-> (name :> n) @@ g.name_to_index]

\* Graph.find_node
find_node(g, name) ==
    IF name \in DOMAIN g.name_to_index THEN g.name_to_index[name] ELSE -1

\* Graph.find_or_add_node without the lookup: it always creates
find_or_add_node_always(g, name) == <<create_node(g, name), NodeCount(g)>>

\* Graph.find_or_add_node: <<graph after the call, returned index>>
find_or_add_node(g, name) ==
    LET n == find_node(g, name)
    IN  IF n < 0 THEN <<create_node(g, name), NodeCount(g)>> ELSE <<g, n>>

\* links[v] = link on a dict kept in insertion order: an existing key keeps
\* its position.
DictSet(links, v, link) ==
    IF \E i \in 1..Len(links) : links[i].dst = v
    THEN [i \in 1..Len(links) |->
            IF links[i].dst = v THEN [dst |-> v, link |-> link] ELSE links[i]]
    ELSE Append(links, [dst |-> v, link |-> link])

\* link_dict.keys(), in insertion order
Keys(links) == [i \in 1..Len(links) |-> links[i].dst]

HasLink(g, u, v) == \E i \in 1..Len(g.nodes[u].links) : g.nodes[u].links[i].dst = v

\* nodes[u].links[v]
GetLink(g, u, v) ==
    LET ls == g.nodes[u].links
        i == CHOOSE j \in 1..Len(ls) : ls[j].dst = v
    IN  ls[i].link

\* Graph.add_link storing the link in both directions
add_link_undirected(g, src_name, dst_name, deterministic, random) ==
    LET r1 == find_or_add_node(g, src_name)
        r2 == find_or_add_node(r1[1], dst_name)
        g2 == r2[1]
        u == r1[2]
        v == r2[2]
        g3 == [g2 EXCEPT !.nodes[u].links = DictSet(@, v, Link(deterministic, random))]
    IN  [g3 EXCEPT !.nodes[v].links = DictSet(@, u, Link(deterministic, random))]

\* Graph.add_link
add_link(g, src_name, dst_name, deterministic, random) ==
    LET r1 == find_or_add_node(g, src_name)
        r2 == find_or_add_node(r1[1], dst_name)
        g2 == r2[1]
        u == r1[2]
        v == r2[2]
    IN  [g2 EXCEPT !.nodes[u].links = DictSet(@, v, Link(deterministic, random))]

\* Graph.get_links_info, as the sequence of (u, v, link) in iteration order
RECURSIVE LinksFrom(_, _)
LinksFrom(g, u) ==
    IF u >= NodeCount(g) THEN <<>>
    ELSE [i \in 1..Len(g.nodes[u].links) |->
            [u |-> u, v |-> g.nodes[u].links[i].dst, link |-> g.nodes[u].links[i].link]]
         \o LinksFrom(g, u + 1)

get_links_info(g) == LinksFrom(g, 0)

RECURSIVE CreateAll(_, _, _)
CreateAll(new_graph, g, u) ==
    IF u >= NodeCount(g) THEN new_graph
    ELSE CreateAll(create_node(new_graph, g.nodes[u].name), g, u + 1)

RECURSIVE AddReversed(_, _, _, _)
AddReversed(new_graph, g, ls, i) ==
    IF i > Len(ls) THEN new_graph
    ELSE AddReversed(add_link(new_graph, g.nodes[ls[i].v].name, g.nodes[ls[i].u].name,
                              ls[i].link.deterministic, ls[i].link.random),
                     g, ls, i + 1)

\* Graph.reverse_graph
reverse_graph(g) == AddReversed(CreateAll(EmptyGraph, g, 0), g, get_links_info(g), 1)

\* Graph.get_link_keys: the key sets of the first link found
get_link_keys(g) ==
    LET ls == get_links_info(g)
    IN  IF Len(ls) = 0 THEN [det_keys |-> {}, rand_keys |-> <<>>]
        ELSE [det_keys |-> DOMAIN ls[1].link.deterministic,
              rand_keys |-> [rv \in DOMAIN ls[1].link.random |-> DOMAIN ls[1].link.random[rv]]]

\* ---------------------------------------------------------- the graphs drawn
\* Link attribute profiles: a cheap slow link and a dear fast one.
Profiles ==
    << Link([cost |-> 1], [time |-> [mean |-> 5, variance |-> 3]]),
       Link([cost |-> 2], [time |-> [mean |-> 0, variance |-> 1]]) >>

AllCandidates ==
    << <<"s", "a">>, <<"a", "e">>, <<"s", "b">>, <<"b", "e">>, <<"e", "a">>,
       <<"a", "b">>, <<"b", "a">>, <<"s", "e">>, <<"e", "s">>, <<"e", "b">> >>

\* the first n candidates
Candidates(n) == SubSeq(AllCandidates, 1, IF n < Len(AllCandidates) THEN n ELSE Len(AllCandidates))

\* add_link for every candidate the choice takes (0: the link is absent)
RECURSIVE BuildLinks(_, _, _)
BuildLinks(g, choice, i) ==
    IF i > Len(choice) THEN g
    ELSE BuildLinks(IF choice[i] = 0 THEN g
                    ELSE add_link(g, AllCandidates[i][1], AllCandidates[i][2],
                                  Profiles[choice[i]].deterministic, Profiles[choice[i]].random),
                    choice, i + 1)

\* The fixture's shape: the nodes "s" and "e" are created first, the links
\* are added after them and create the other nodes on demand.
BuildGraph(choice) == BuildLinks(create_node(create_node(EmptyGraph, "s"), "e"), choice, 1)

GraphsOf(n) == {BuildGraph(choice) : choice \in [1..Len(Candidates(n)) -> 0..Len(Profiles)]}

Graphs == GraphsOf(MaxLinks)

LibraryGraphs == GraphsOf(MaxLibraryLinks)

\* ----------------------------------------------------------- dijkstra.py
\* link.deterministic[cost_key] or link.random[rand_var][cost_key]
LinkCost(link, cost_key, rand_var) ==
    IF rand_var = "None" THEN link.deterministic[cost_key]
    ELSE link.random[rand_var][cost_key]

\* a (cost, node) tuple orders before another
TupleLess(a, b) == a[1] < b[1] \/ (a[1] = b[1] /\ a[2] < b[2])

\* heapq.heappop on (float, int) tuples: the least tuple
MinIndex(queue) ==
    CHOOSE i \in 1..Len(queue) : \A j \in 1..Len(queue) : ~TupleLess(queue[j], queue[i])

Remove(queue, i) == SubSeq(queue, 1, i - 1) \o SubSeq(queue, i + 1, Len(queue))

\* Relax with the relaxation test turned around
RECURSIVE RelaxWorse(_, _, _, _, _, _, _)
RelaxWorse(st, links, i, current_cost, current_node, cost_key, rand_var) ==
    IF i > Len(links) THEN st
    ELSE LET neighbor == links[i].dst
             new_cost == Plus(current_cost, LinkCost(links[i].link, cost_key, rand_var))
         IN  RelaxWorse(IF st.cost[neighbor] = Inf
                        THEN [cost |-> [st.cost EXCEPT ![neighbor] = new_cost],
                              predecessors |-> [st.predecessors EXCEPT ![neighbor] = current_node],
                              queue |-> Append(st.queue, <<new_cost, neighbor>>)]
                        ELSE st,
                        links, i + 1, current_cost, current_node, cost_key, rand_var)

\* the relaxation loop over reversed_graph.nodes[current_node].links.items()
RECURSIVE Relax(_, _, _, _, _, _, _)
Relax(st, links, i, current_cost, current_node, cost_key, rand_var) ==
    IF i > Len(links) THEN st
    ELSE LET neighbor == links[i].dst
             new_cost == Plus(current_cost, LinkCost(links[i].link, cost_key, rand_var))
         IN  Relax(IF new_cost < st.cost[neighbor]
                   THEN [cost |-> [st.cost EXCEPT ![neighbor] = new_cost],
                         predecessors |-> [st.predecessors EXCEPT ![neighbor] = current_node],
                         queue |-> Append(st.queue, <<new_cost, neighbor>>)]
                   ELSE st,
                   links, i + 1, current_cost, current_node, cost_key, rand_var)

DijkstraInit(reversed_graph, target_node) ==
    [cost |-> [v \in NodeIds(reversed_graph) |-> IF v = target_node THEN 0 ELSE Inf],
     predecessors |-> [v \in NodeIds(reversed_graph) |-> -1],
     queue |-> << <<0, target_node>> >>]

RECURSIVE DijkstraLoop(_, _, _, _)
DijkstraLoop(reversed_graph, st, cost_key, rand_var) ==
    IF Len(st.queue) = 0 THEN st
    ELSE LET i == MinIndex(st.queue)
             current_cost == st.queue[i][1]
             current_node == st.queue[i][2]
             popped == [st EXCEPT !.queue = Remove(st.queue, i)]
         IN  IF current_cost > st.cost[current_node]
             THEN DijkstraLoop(reversed_graph, popped, cost_key, rand_var)
             ELSE DijkstraLoop(reversed_graph,
                               Relax(popped, reversed_graph.nodes[current_node].links, 1,
                                     current_cost, current_node, cost_key, rand_var),
                               cost_key, rand_var)

\* dijkstra(graph, target_node, cost_key, rand_var): the cost vector
dijkstra(g, target_node, cost_key, rand_var) ==
    DijkstraLoop(reverse_graph(g), DijkstraInit(reverse_graph(g), target_node),
                 cost_key, rand_var).cost

\* dijkstra_between_nodes: its loop leaves at the first popped node that is
\* the target, before relaxing it.
RECURSIVE BetweenLoop(_, _, _, _, _)
BetweenLoop(reversed_graph, st, target_node, cost_key, rand_var) ==
    IF Len(st.queue) = 0 THEN st
    ELSE LET i == MinIndex(st.queue)
             current_cost == st.queue[i][1]
             current_node == st.queue[i][2]
             popped == [st EXCEPT !.queue = Remove(st.queue, i)]
         IN  IF current_cost > st.cost[current_node]
             THEN BetweenLoop(reversed_graph, popped, target_node, cost_key, rand_var)
             ELSE IF current_node = target_node THEN popped
             ELSE BetweenLoop(reversed_graph,
                              Relax(popped, reversed_graph.nodes[current_node].links, 1,
                                    current_cost, current_node, cost_key, rand_var),
                              target_node, cost_key, rand_var)

\* the backtracking loop: u, predecessors[u], ... until -1, then reversed
RECURSIVE Backtrack(_, _, _)
Backtrack(predecessors, u, path) ==
    IF u = -1 THEN path
    ELSE Backtrack(predecessors, predecessors[u], <<u>> \o path)

\* dijkstra_between_nodes(graph, start_node, target_node, cost_key, rand_var)
dijkstra_between_nodes(g, start_node, target_node, cost_key, rand_var) ==
    LET st == BetweenLoop(reverse_graph(g), DijkstraInit(reverse_graph(g), target_node),
                          target_node, cost_key, rand_var)
        u == target_node
        path == IF st.predecessors[u] # -1 \/ u = start_node
                THEN Backtrack(st.predecessors, u, <<>>)
                ELSE <<>>
    IN  [path |-> path, cost |-> st.cost[start_node]]

\* the (cost_key, rand_var) pairs of the link schema
AttributeKeys ==
    { [cost_key |-> "cost", rand_var |-> "None"],
      [cost_key |-> "mean", rand_var |-> "time"],
      [cost_key |-> "variance", rand_var |-> "time"] }

\* ------------------------------------------------- SpecDijkstra: the library
\* One call of a (pure) library function on a drawn graph per behaviour.
InitDijkstra ==
    /\ graph \in LibraryGraphs
    /\ call = "none"
    /\ args = <<>>
    /\ ret = <<>>
    /\ parameters = <<>>
    /\ pc = "new"
    /\ raised = "none"
    /\ preprocessing = <<>>
    /\ pulse_queue = <<>>
    /\ current_optimal_path = <<>>
    /\ current_optimal_objective = Inf
    /\ optimal_path = <<>>
    /\ optimal_objective = Inf
    /\ cells = <<>>
    /\ stack = <<>>
    /\ evaluated = <<>>
    /\ ncalls = 0
    /\ prep_ok = FALSE
    /\ pushes = 0
    /\ reversed_g = <<>>
    /\ dicts = <<>>

CallDijkstra ==
    \E t \in NodeIds(graph), k \in AttributeKeys :
        /\ call = "none"
        /\ call' = "dijkstra"
        /\ args' = [target_node |-> t, cost_key |-> k.cost_key, rand_var |-> k.rand_var]
        /\ ret' = dijkstra(graph, t, k.cost_key, k.rand_var)
        /\ UNCHANGED <<graph, graphVars, engineVars>>

CallDijkstraBetween ==
    \E s \in NodeIds(graph), t \in NodeIds(graph), k \in AttributeKeys :
        /\ call = "none"
        /\ call' = "dijkstra_between_nodes"
        /\ args' = [start_node |-> s, target_node |-> t,
                    cost_key |-> k.cost_key, rand_var |-> k.rand_var]
        /\ ret' = dijkstra_between_nodes(graph, s, t, k.cost_key, k.rand_var)
        /\ UNCHANGED <<graph, graphVars, engineVars>>

NextDijkstra == CallDijkstra \/ CallDijkstraBetween

SpecDijkstra == InitDijkstra /\ [][NextDijkstra]_vars

\* ------------------------------------------- reference: paths of a graph
\* the simple paths of g that extend path (which ends at Last) to end at t
RECURSIVE SimpleExtensions(_, _, _)
SimpleExtensions(g, path, t) ==
    LET last == path[Len(path)]
    IN  IF last = t THEN {path}
        ELSE UNION { SimpleExtensions(g, Append(path, v), t) :
                     v \in {w \in NodeIds(g) : HasLink(g, last, w)
                                               /\ \A i \in 1..Len(path) : path[i] # w} }

SimplePaths(g, s, t) == SimpleExtensions(g, <<s>>, t)

RECURSIVE PathSum(_, _, _, _)
PathSum(g, path, cost_key, rand_var) ==
    IF Len(path) < 2 THEN 0
    ELSE LinkCost(GetLink(g, path[1], path[2]), cost_key, rand_var)
         + PathSum(g, Tail(path), cost_key, rand_var)

IsPath(g, path) ==
    \A i \in 1..(Len(path) - 1) :
        path[i] \in NodeIds(g) /\ path[i + 1] \in NodeIds(g) /\ HasLink(g, path[i], path[i + 1])

HasRepeat(path) == \E i, j \in 1..Len(path) : i < j /\ path[i] = path[j]

SetMin(S) == CHOOSE x \in S : \A y \in S : x <= y

\* the least attribute sum over the paths from v to t, Inf when there is none
ShortestCost(g, v, t, cost_key, rand_var) ==
    LET sums == {PathSum(g, p, cost_key, rand_var) : p \in SimplePaths(g, v, t)}
    IN  IF sums = {} THEN Inf ELSE SetMin(sums)

\* ------------------------------------------------------------- C5 .. C7
\* C5: dijkstra returns a vector indexed by node id whose entry for v is the
\* least cumulative attribute value over the paths from v to the target (0 at
\* the target) and infinity where the target cannot be reached.
C5_DijkstraIsShortest ==
    call = "dijkstra" =>
        /\ DOMAIN ret = NodeIds(graph)
        /\ ret[args.target_node] = 0
        /\ \A v \in NodeIds(graph) :
              ret[v] = ShortestCost(graph, v, args.target_node, args.cost_key, args.rand_var)

\* C5 happens: a call whose vector holds an infinite entry and an entry that
\* a longer path makes smaller than the direct link does.
C5_Witness ==
    /\ call = "dijkstra"
    /\ \E v \in NodeIds(graph) : ret[v] = Inf
    /\ \E v \in NodeIds(graph) :
          /\ HasLink(graph, v, args.target_node)
          /\ ret[v] < LinkCost(GetLink(graph, v, args.target_node), args.cost_key, args.rand_var)

\* C6: the cost dijkstra_between_nodes(g, s, t, key) returns equals
\* dijkstra(g, t, key)[s], and the link costs along the returned path sum to
\* that value.
C6_BetweenCostMatches ==
    call = "dijkstra_between_nodes" =>
        /\ ret.cost = dijkstra(graph, args.target_node, args.cost_key, args.rand_var)[args.start_node]
        /\ ret.path # <<>> =>
              PathSum(graph, ret.path, args.cost_key, args.rand_var) = ret.cost

\* C7: the path dijkstra_between_nodes returns begins with start, ends with
\* target and follows links when the target is reachable; it is empty when
\* the target is unreachable; it is [start] when start = target.
C7_BetweenPathShape ==
    call = "dijkstra_between_nodes" =>
        LET s == args.start_node
            t == args.target_node
        IN  /\ (SimplePaths(graph, s, t) # {}) =>
                  /\ ret.path # <<>>
                  /\ ret.path[1] = s
                  /\ ret.path[Len(ret.path)] = t
                  /\ IsPath(graph, ret.path)
            /\ (SimplePaths(graph, s, t) = {}) => ret.path = <<>>
            /\ (s = t) => ret.path = <<s>>

\* ------------------------------------------------------------- pulse.py
\* the largest max_pulse_depth drawn
MaxDepth == 2

\* how many preprocess()/run() calls a behaviour makes on the engine
MaxCalls == 2

\* constants["T_max"] of the reference problem
T_max == 10

\* Preprocessing(deterministic={}, random={})
EmptyPreprocessing == [deterministic |-> <<>>, random |-> <<>>]

\* the elements of a list, as set(...) gives them
SetOf(seq) == {seq[i] : i \in 1..Len(seq)}

\* Pulse.__init__, is_dict_subset(sub_dict, super_dict); sub_dict is a
\* sequence of (key, values) in insertion order
is_dict_subset(sub_dict, super_dict) ==
    \A i \in 1..Len(sub_dict) :
        /\ sub_dict[i].rand_var \in DOMAIN super_dict
        /\ SetOf(sub_dict[i].costs) \subseteq super_dict[sub_dict[i].rand_var]

\* Pulse.__init__ without the check of prep_random_weights
InitRaisesDeterministicOnly(g, p) ==
    IF ~(SetOf(p.prep_deterministic_weights) \subseteq get_link_keys(g).det_keys)
    THEN "ValueError"
    ELSE "none"

\* Pulse.__init__: the exception construction raises, "none" if none
InitRaises(g, p) ==
    LET keys == get_link_keys(g)
    IN  IF ~(SetOf(p.prep_deterministic_weights) \subseteq keys.det_keys) THEN "ValueError"
        ELSE IF ~is_dict_subset(p.prep_random_weights, keys.rand_keys) THEN "ValueError"
        ELSE "none"

\* Pulse.preprocess, the loop over prep_deterministic_weights from its i-th
\* element on: the table and the exception it ends with
RECURSIVE PrepDeterministic(_, _, _, _)
PrepDeterministic(g, p, prep, i) ==
    IF i > Len(p.prep_deterministic_weights) THEN [prep |-> prep, raised |-> "none"]
    ELSE LET cost == p.prep_deterministic_weights[i]
             costs_from_target == dijkstra(g, p.target_node, cost, "None")
             stored == [prep EXCEPT !.deterministic = (cost :> costs_from_target) @@ @]
         IN  IF costs_from_target[p.source_node] = Inf
             THEN [prep |-> stored, raised |-> "RuntimeError"]
             ELSE PrepDeterministic(g, p, stored, i + 1)

\* the inner loop over the costs of one random variable
RECURSIVE PrepRandomCosts(_, _, _, _, _, _)
PrepRandomCosts(g, p, prep, rand_var, costs, j) ==
    IF j > Len(costs) THEN [prep |-> prep, raised |-> "none"]
    ELSE LET costs_from_target == dijkstra(g, p.target_node, costs[j], rand_var)
             stored == [prep EXCEPT !.random[rand_var] = (costs[j] :> costs_from_target) @@ @]
         IN  IF costs_from_target[p.source_node] = Inf
             THEN [prep |-> stored, raised |-> "RuntimeError"]
             ELSE PrepRandomCosts(g, p, stored, rand_var, costs, j + 1)

\* the loop over prep_random_weights.items()
RECURSIVE PrepRandom(_, _, _, _)
PrepRandom(g, p, prep, i) ==
    IF i > Len(p.prep_random_weights) THEN [prep |-> prep, raised |-> "none"]
    ELSE LET rand_var == p.prep_random_weights[i].rand_var
             fresh == [prep EXCEPT !.random = (rand_var :> <<>>) @@ @]
             r == PrepRandomCosts(g, p, fresh, rand_var, p.prep_random_weights[i].costs, 1)
         IN  IF r.raised # "none" THEN r ELSE PrepRandom(g, p, r.prep, i + 1)

\* Pulse.preprocess with the reachability test left out of the second loop
preprocessUncheckedRandom(g, p, prep) ==
    LET d == PrepDeterministic(g, p, prep, 1)
        r == PrepRandom(g, p, d.prep, 1)
    IN  IF d.raised # "none" THEN d ELSE [prep |-> r.prep, raised |-> "none"]

\* Pulse.preprocess
preprocess(g, p, prep) ==
    LET d == PrepDeterministic(g, p, prep, 1)
    IN  IF d.raised # "none" THEN d ELSE PrepRandom(g, p, d.prep, 1)

\* ------------------------------------- tests/test_pulse.py: the callbacks
\* A PathInformation is [deterministic, random, path]; random maps a random
\* variable to the identity (index in cells) of its accumulator dict, which
\* dict.copy() shares between the copies.
PathInformation(deterministic, random, path) ==
    [deterministic |-> deterministic, random |-> random, path |-> path]

\* info_update: deterministic_info is the caller's copy; random_info["time"]
\* is updated in place.  Gives the returned accumulators and the cells.
info_update(g, current_node, reachable_node, deterministic_info, random_info, cs) ==
    LET link == GetLink(g, current_node, reachable_node)
        c == random_info["time"]
    IN  [deterministic |-> [deterministic_info EXCEPT
                              !["cost"] = @ + link.deterministic["cost"]],
         random |-> random_info,
         cells |-> [cs EXCEPT ![c] = [mean |-> @.mean + link.random["time"]["mean"],
                                      variance |-> @.variance + link.random["time"]["variance"]]]]

\* prune_feasibility's test on a mean and a variance, with alpha = 0.9:
\* norm(mean, sqrt(variance)).cdf(T_max) < alpha iff, for T_max >= mean,
\* (T_max - mean)^2 < z^2 * variance, where z^2 = 1.6424 for alpha = 0.9;
\* a zero variance gives a nan probability, which compares false.
Infeasible(mean, variance) ==
    \/ /\ T_max >= mean
       /\ variance > 0
       /\ (variance >= Inf \/ (T_max - mean) * (T_max - mean) * 10000 < 16424 * variance)
    \/ T_max < mean

HasPrepRandom(prep, rand_var, key) ==
    /\ rand_var \in DOMAIN prep.random
    /\ key \in DOMAIN prep.random[rand_var]

\* prune_feasibility: [pruned, raised]
prune_feasibility(prep, cs, current_node, info) ==
    IF ~HasPrepRandom(prep, "time", "mean") \/ ~HasPrepRandom(prep, "time", "variance")
    THEN [pruned |-> FALSE, raised |-> "KeyError"]
    ELSE LET c == cs[info.random["time"]]
             mean == Plus(c.mean, prep.random["time"]["mean"][current_node])
             variance == Plus(c.variance, prep.random["time"]["variance"][current_node])
         IN  [pruned |-> Infeasible(mean, variance), raised |-> "none"]

\* prune_bounds recording an incumbent at whatever node it is called for
prune_bounds_any_node(prep, target_node, inc_path, inc_objective, current_node, info) ==
    IF "cost" \notin DOMAIN prep.deterministic
    THEN [pruned |-> FALSE, raised |-> "KeyError", path |-> inc_path, objective |-> inc_objective]
    ELSE IF Plus(info.deterministic["cost"], prep.deterministic["cost"][current_node])
              > inc_objective
    THEN [pruned |-> TRUE, raised |-> "none", path |-> inc_path, objective |-> inc_objective]
    ELSE IF info.deterministic["cost"] < inc_objective
    THEN [pruned |-> FALSE, raised |-> "none",
          path |-> Append(info.path, current_node),
          objective |-> info.deterministic["cost"]]
    ELSE [pruned |-> FALSE, raised |-> "none", path |-> inc_path, objective |-> inc_objective]

\* prune_bounds recording the path so far without the current node
prune_bounds_no_append(prep, target_node, inc_path, inc_objective, current_node, info) ==
    IF "cost" \notin DOMAIN prep.deterministic
    THEN [pruned |-> FALSE, raised |-> "KeyError", path |-> inc_path, objective |-> inc_objective]
    ELSE IF Plus(info.deterministic["cost"], prep.deterministic["cost"][current_node])
              > inc_objective
    THEN [pruned |-> TRUE, raised |-> "none", path |-> inc_path, objective |-> inc_objective]
    ELSE IF current_node = target_node /\ info.deterministic["cost"] < inc_objective
    THEN [pruned |-> FALSE, raised |-> "none",
          path |-> info.path,
          objective |-> info.deterministic["cost"]]
    ELSE [pruned |-> FALSE, raised |-> "none", path |-> inc_path, objective |-> inc_objective]

\* prune_bounds recording the new path and leaving the objective as it was
prune_bounds_path_only(prep, target_node, inc_path, inc_objective, current_node, info) ==
    IF "cost" \notin DOMAIN prep.deterministic
    THEN [pruned |-> FALSE, raised |-> "KeyError", path |-> inc_path, objective |-> inc_objective]
    ELSE IF Plus(info.deterministic["cost"], prep.deterministic["cost"][current_node])
              > inc_objective
    THEN [pruned |-> TRUE, raised |-> "none", path |-> inc_path, objective |-> inc_objective]
    ELSE IF current_node = target_node /\ info.deterministic["cost"] < inc_objective
    THEN [pruned |-> FALSE, raised |-> "none",
          path |-> Append(info.path, current_node),
          objective |-> inc_objective]
    ELSE [pruned |-> FALSE, raised |-> "none", path |-> inc_path, objective |-> inc_objective]

\* prune_bounds: [pruned, raised, path, objective], the last two the
\* incumbent it leaves
prune_bounds(prep, target_node, inc_path, inc_objective, current_node, info) ==
    IF "cost" \notin DOMAIN prep.deterministic
    THEN [pruned |-> FALSE, raised |-> "KeyError", path |-> inc_path, objective |-> inc_objective]
    ELSE IF Plus(info.deterministic["cost"], prep.deterministic["cost"][current_node])
              > inc_objective
    THEN [pruned |-> TRUE, raised |-> "none", path |-> inc_path, objective |-> inc_objective]
    ELSE IF current_node = target_node /\ info.deterministic["cost"] < inc_objective
    THEN [pruned |-> FALSE, raised |-> "none",
          path |-> Append(info.path, current_node),
          objective |-> info.deterministic["cost"]]
    ELSE [pruned |-> FALSE, raised |-> "none", path |-> inc_path, objective |-> inc_objective]

\* one pruning predicate, by name
Prune(name, prep, cs, target_node, inc_path, inc_objective, current_node, info) ==
    IF name = "prune_feasibility"
    THEN LET r == prune_feasibility(prep, cs, current_node, info)
         IN  [pruned |-> r.pruned, raised |-> r.raised,
              path |-> inc_path, objective |-> inc_objective]
    ELSE prune_bounds(prep, target_node, inc_path, inc_objective, current_node, info)

\* any([prune(...) for prune in pruning_functions]): a list, so every
\* predicate is invoked before any() looks at the results
RECURSIVE any_prune_list(_, _, _, _, _, _, _, _, _, _)
any_prune_list(fs, i, called, prep, cs, target_node, inc_path, inc_objective, current_node, info) ==
    IF i > Len(fs)
    THEN [pruned |-> FALSE, raised |-> "none", path |-> inc_path,
          objective |-> inc_objective, called |-> called]
    ELSE LET r == Prune(fs[i], prep, cs, target_node, inc_path, inc_objective,
                        current_node, info)
             now == Append(called, fs[i])
         IN  IF r.raised # "none"
             THEN [pruned |-> r.pruned, raised |-> r.raised, path |-> r.path,
                   objective |-> r.objective, called |-> now]
             ELSE LET rest == any_prune_list(fs, i + 1, now, prep, cs, target_node, r.path,
                                             r.objective, current_node, info)
                  IN  [rest EXCEPT !.pruned = r.pruned \/ rest.pruned]

\* any(prune(self, current_node, current_path_info) for prune in
\* pruning_functions), from the i-th predicate on: a generator, so any()
\* stops at the first true.  called: the predicates invoked.
RECURSIVE any_prune(_, _, _, _, _, _, _, _, _, _)
any_prune(fs, i, called, prep, cs, target_node, inc_path, inc_objective, current_node, info) ==
    IF i > Len(fs)
    THEN [pruned |-> FALSE, raised |-> "none", path |-> inc_path,
          objective |-> inc_objective, called |-> called]
    ELSE LET r == Prune(fs[i], prep, cs, target_node, inc_path, inc_objective,
                        current_node, info)
             now == Append(called, fs[i])
         IN  IF r.raised # "none" \/ r.pruned
             THEN [pruned |-> r.pruned, raised |-> r.raised, path |-> r.path,
                   objective |-> r.objective, called |-> now]
             ELSE any_prune(fs, i + 1, now, prep, cs, target_node, r.path, r.objective,
                            current_node, info)

\* exploration_order(pulse_alg, node): the node's preprocessed cost bound
exploration_order(prep, node) == prep.deterministic["cost"][node]

\* sorted(seq, key=exploration_order): stable, ascending
RECURSIVE Sorted(_, _)
Sorted(seq, prep) ==
    IF Len(seq) <= 1 THEN seq
    ELSE LET i == CHOOSE k \in 1..Len(seq) :
                    /\ \A j \in 1..Len(seq) :
                          exploration_order(prep, seq[k]) <= exploration_order(prep, seq[j])
                    /\ \A j \in 1..(k - 1) :
                          exploration_order(prep, seq[j]) > exploration_order(prep, seq[k])
         IN  <<seq[i]>> \o Sorted(Remove(seq, i), prep)

\* Pulse._order_nodes: [nodes, raised]
order_nodes(prep, link_dict) ==
    IF Len(link_dict) > 0 /\ "cost" \notin DOMAIN prep.deterministic
    THEN [nodes |-> <<>>, raised |-> "KeyError"]
    ELSE [nodes |-> Sorted(Keys(link_dict), prep), raised |-> "none"]

\* pulse_score: the reference scores a path by the bound of its last node;
\* the other scoring drawn is the path's accumulated cost.  [score, raised]
pulse_score(kind, prep, info) ==
    IF kind = "accumulated_cost"
    THEN [score |-> info.deterministic["cost"], raised |-> "none"]
    ELSE IF "cost" \notin DOMAIN prep.deterministic
    THEN [score |-> 0, raised |-> "KeyError"]
    ELSE [score |-> prep.deterministic["cost"][info.path[Len(info.path)]], raised |-> "none"]

\* ----------------------------------------- heapq on (score, PathInformation)
\* PathInformation.__eq__ (dataclass): the fields compared by value, the
\* shared accumulator dicts by their present contents
InfoEq(a, b, cs) ==
    /\ a.deterministic = b.deterministic
    /\ DOMAIN a.random = DOMAIN b.random
    /\ \A rv \in DOMAIN a.random : cs[a.random[rv]] = cs[b.random[rv]]
    /\ a.path = b.path

\* (score, info) < (score, info): "lt", "ge", or "TypeError" when the
\* scores tie and the PathInformation objects, which define no order, differ
ItemLess(a, b, cs) ==
    IF a.score # b.score THEN (IF a.score < b.score THEN "lt" ELSE "ge")
    ELSE IF InfoEq(a.info, b.info, cs) THEN "ge"
    ELSE "TypeError"

Swap(heap, i, j) == [heap EXCEPT ![i] = heap[j], ![j] = heap[i]]

\* _heapq's siftdown(heap, startpos, pos), positions 0-based: [heap, raised]
RECURSIVE siftdown(_, _, _, _)
siftdown(heap, startpos, pos, cs) ==
    IF pos <= startpos THEN [heap |-> heap, raised |-> "none"]
    ELSE LET parentpos == (pos - 1) \div 2
             cmp == ItemLess(heap[pos + 1], heap[parentpos + 1], cs)
         IN  IF cmp = "TypeError" THEN [heap |-> heap, raised |-> "TypeError"]
             ELSE IF cmp = "ge" THEN [heap |-> heap, raised |-> "none"]
             ELSE siftdown(Swap(heap, pos + 1, parentpos + 1), startpos, parentpos, cs)

\* _heapq's siftup(heap, pos): the smaller child moves up until a leaf, then
\* siftdown from there.  [heap, raised]
RECURSIVE siftup(_, _, _, _)
siftup(heap, startpos, pos, cs) ==
    LET endpos == Len(heap)
        limit == endpos \div 2
        childpos == 2 * pos + 1
    IN  IF pos >= limit THEN siftdown(heap, startpos, pos, cs)
        ELSE IF childpos + 1 < endpos
        THEN LET cmp == ItemLess(heap[childpos + 1], heap[childpos + 2], cs)
             IN  IF cmp = "TypeError" THEN [heap |-> heap, raised |-> "TypeError"]
                 ELSE LET child == IF cmp = "lt" THEN childpos ELSE childpos + 1
                      IN  siftup(Swap(heap, child + 1, pos + 1), startpos, child, cs)
        ELSE siftup(Swap(heap, childpos + 1, pos + 1), startpos, childpos, cs)

\* heapq.heappush(heap, item): [heap, raised]
heappush(heap, item, cs) == siftdown(Append(heap, item), 0, Len(heap), cs)

\* heap.pop() in place of heapq.heappop(heap): the last element of the list
heappop_last(heap, cs) ==
    [heap |-> SubSeq(heap, 1, Len(heap) - 1), item |-> heap[Len(heap)], raised |-> "none"]

\* heapq.heappop(heap) on a non-empty heap: [heap, item, raised]
heappop(heap, cs) ==
    LET lastelt == heap[Len(heap)]
        rest == SubSeq(heap, 1, Len(heap) - 1)
    IN  IF Len(rest) = 0 THEN [heap |-> rest, item |-> lastelt, raised |-> "none"]
        ELSE LET r == siftup([rest EXCEPT ![1] = lastelt], 0, 0, cs)
             IN  [heap |-> r.heap, item |-> heap[1], raised |-> r.raised]

\* --------------------------------------------------- the engine's inputs
\* the configuration of tests/test_pulse.py::test_sarp on graph g
Reference(g, depth) ==
    [source_node |-> find_node(g, "s"),
     target_node |-> find_node(g, "e"),
     max_pulse_depth |-> depth,
     prep_deterministic_weights |-> <<"cost">>,
     prep_random_weights |-> << [rand_var |-> "time", costs |-> <<"mean", "variance">>] >>,
     pruning_functions |-> <<"prune_feasibility", "prune_bounds">>,
     pulse_score |-> "pulse_score"]

\* the Parameters drawn: the reference at every depth, and at the largest
\* depth one field changed at a time
ParameterChoices(g) ==
    LET ref == Reference(g, MaxDepth)
    IN  {Reference(g, d) : d \in 1..MaxDepth}
        \cup {[ref EXCEPT !.pruning_functions = <<"prune_bounds">>],
              [ref EXCEPT !.pruning_functions = <<"prune_bounds">>,
                          !.prep_random_weights = <<>>],
              [ref EXCEPT !.pulse_score = "accumulated_cost"],
              [ref EXCEPT !.pruning_functions = <<"prune_feasibility">>,
                          !.pulse_score = "accumulated_cost"]}
        \cup {[ref EXCEPT !.prep_deterministic_weights = w] :
                 w \in {<<>>, <<"weight">>, <<"cost", "weight">>}}
        \cup {[ref EXCEPT !.prep_random_weights = w] :
                 w \in {<<>>,
                        << [rand_var |-> "time", costs |-> <<"mean">>] >>,
                        << [rand_var |-> "time", costs |-> <<"mean", "sigma">>] >>,
                        << [rand_var |-> "delay", costs |-> <<>>] >>}}

\* run()'s default arguments
DefaultArgs == [init_optimal_path |-> <<>>, init_objective |-> Inf]

\* the arguments run() is called with: the defaults, or a known
\* source-to-target path and its cost as the initial incumbent
RunArgs(g, p) ==
    {DefaultArgs}
    \cup {[init_optimal_path |-> q, init_objective |-> PathSum(g, q, "cost", "None")] :
             q \in SimplePaths(g, p.source_node, p.target_node)}

\* ------------------------------------------------------ the engine's steps
\* the depth test with the bound itself let through
WithinDepthInclusive(current_depth, max_pulse_depth) == current_depth <= max_pulse_depth

\* _propagate_pulse: current_depth < self.parameters.max_pulse_depth
WithinDepth(current_depth, max_pulse_depth) == current_depth < max_pulse_depth

\* the membership test made against the path's last node only
OnPathLast(reachable_node, path) == path[Len(path)] = reachable_node

\* reachable_node in current_path_info.path
OnPath(reachable_node, path) == \E i \in 1..Len(path) : path[i] = reachable_node

\* the target test made against the source node
AtSource(current_node, p) == current_node = p.source_node

\* _propagate_pulse: current_node != self.parameters.target_node, negated
AtTarget(current_node, p) == current_node = p.target_node

Frame(kind, stage, node, info, child_depth, todo) ==
    [kind |-> kind, stage |-> stage, node |-> node, info |-> info,
     child_depth |-> child_depth, todo |-> todo]

Top == stack[Len(stack)]

Pop(stk) == SubSeq(stk, 1, Len(stk) - 1)

Init ==
    /\ graph \in Graphs
    /\ parameters \in ParameterChoices(graph)
    /\ call = "none"
    /\ args = <<>>
    /\ ret = <<>>
    /\ pc = "new"
    /\ raised = "none"
    /\ preprocessing = <<>>
    /\ pulse_queue = <<>>
    /\ current_optimal_path = <<>>
    /\ current_optimal_objective = Inf
    /\ optimal_path = <<>>
    /\ optimal_objective = Inf
    /\ cells = <<>>
    /\ stack = <<>>
    /\ evaluated = <<>>
    /\ ncalls = 0
    /\ prep_ok = FALSE
    /\ pushes = 0
    /\ reversed_g = <<>>
    /\ dicts = <<>>

\* Pulse(parameters)
Construct ==
    /\ pc = "new"
    /\ call' = "Pulse"
    /\ raised' = InitRaises(graph, parameters)
    /\ pc' = IF raised' = "none" THEN "idle" ELSE "invalid"
    /\ preprocessing' = IF raised' = "none" THEN EmptyPreprocessing ELSE preprocessing
    /\ UNCHANGED <<graph, graphVars, args, ret, parameters, pulse_queue, current_optimal_path,
                   current_optimal_objective, optimal_path, optimal_objective, cells,
                   stack, evaluated, ncalls, prep_ok, pushes>>

\* pulse_alg.preprocess()
Preprocess ==
    /\ pc = "idle"
    /\ ncalls < MaxCalls
    /\ LET r == preprocess(graph, parameters, preprocessing)
       IN  /\ preprocessing' = r.prep
           /\ raised' = r.raised
           /\ prep_ok' = (prep_ok \/ r.raised = "none")
    /\ call' = "preprocess"
    /\ ncalls' = ncalls + 1
    /\ UNCHANGED <<graph, graphVars, args, ret, parameters, pc, pulse_queue, current_optimal_path,
                   current_optimal_objective, optimal_path, optimal_objective, cells,
                   stack, evaluated, pushes>>

\* pulse_alg.run(init_optimal_path, init_objective), up to the first call of
\* _propagate_pulse
RunBegin ==
    /\ pc = "idle"
    /\ ncalls < MaxCalls
    /\ \E a \in RunArgs(graph, parameters) :
        /\ args' = a
        /\ current_optimal_path' = a.init_optimal_path
        /\ current_optimal_objective' = a.init_objective
    /\ cells' = Append(cells, [mean |-> 0, variance |-> 0])
    /\ stack' = << Frame("propagate", "enter", parameters.source_node,
                         PathInformation([cost |-> 0], [time |-> Len(cells) + 1], <<>>),
                         1, <<>>) >>
    /\ pc' = "running"
    /\ raised' = "none"
    /\ call' = "run"
    /\ evaluated' = <<>>
    /\ pushes' = 0
    /\ ncalls' = ncalls + 1
    /\ UNCHANGED <<graph, graphVars, ret, parameters, preprocessing, pulse_queue, optimal_path,
                   optimal_objective, prep_ok>>

\* an exception leaves run(): the frames are gone, the fields stay
Raise(e) ==
    /\ raised' = e
    /\ pc' = "idle"
    /\ stack' = <<>>

\* _propagate_pulse from its entry to its first recursive call or its return
PropagateEnter ==
    /\ pc = "running"
    /\ stack # <<>>
    /\ Top.stage = "enter"
    /\ LET node == Top.node
           r == any_prune(parameters.pruning_functions, 1, <<>>, preprocessing, cells,
                          parameters.target_node, current_optimal_path,
                          current_optimal_objective, node, Top.info)
           info == [Top.info EXCEPT !.path = Append(@, node)]
           order == order_nodes(preprocessing, graph.nodes[node].links)
           score == pulse_score(parameters.pulse_score, preprocessing, info)
           pushed == heappush(pulse_queue, [score |-> score.score, info |-> info], cells)
       IN  /\ evaluated' = r.called
           /\ current_optimal_path' = r.path
           /\ current_optimal_objective' = r.objective
           /\ IF r.raised # "none"
              THEN Raise(r.raised) /\ UNCHANGED <<pulse_queue, pushes>>
              ELSE IF r.pruned
              THEN /\ stack' = Pop(stack)
                   /\ UNCHANGED <<pc, raised, pulse_queue, pushes>>
              ELSE IF ~AtTarget(node, parameters)
              THEN /\ IF WithinDepth(Top.child_depth - 1, parameters.max_pulse_depth)
                      THEN IF order.raised # "none"
                           THEN Raise(order.raised)
                           ELSE /\ stack' = [stack EXCEPT ![Len(stack)] =
                                               [@ EXCEPT !.stage = "loop", !.info = info,
                                                         !.todo = order.nodes]]
                                /\ UNCHANGED <<pc, raised>>
                      ELSE /\ stack' = Pop(stack)
                           /\ UNCHANGED <<pc, raised>>
                   /\ UNCHANGED <<pulse_queue, pushes>>
              ELSE IF score.raised # "none"
              THEN Raise(score.raised) /\ UNCHANGED <<pulse_queue, pushes>>
              ELSE /\ pulse_queue' = pushed.heap
                   /\ pushes' = pushes + 1
                   /\ IF pushed.raised # "none"
                      THEN Raise(pushed.raised)
                      ELSE /\ stack' = Pop(stack)
                           /\ UNCHANGED <<pc, raised>>
    /\ UNCHANGED <<graph, graphVars, libVars, parameters, preprocessing, optimal_path,
                   optimal_objective, cells, ncalls, prep_ok>>

\* one turn of the loop over ordered_reachable_nodes, in _propagate_pulse
\* (children at depth + 1) or in run() (children at depth 0)
PropagateLoop ==
    /\ pc = "running"
    /\ stack # <<>>
    /\ Top.stage = "loop"
    /\ IF Top.todo = <<>>
       THEN /\ stack' = Pop(stack)
            /\ UNCHANGED cells
       ELSE LET reachable_node == Head(Top.todo)
                rest == [stack EXCEPT ![Len(stack)].todo = Tail(@)]
                new_path == Top.info.path
                u == info_update(graph, Top.node, reachable_node,
                                 Top.info.deterministic, Top.info.random, cells)
            IN  IF OnPath(reachable_node, new_path)
                THEN /\ stack' = rest
                     /\ UNCHANGED cells
                ELSE /\ stack' = Append(rest,
                                    Frame("propagate", "enter", reachable_node,
                                          PathInformation(u.deterministic, u.random, new_path),
                                          Top.child_depth + 1, <<>>))
                     /\ cells' = u.cells
    /\ UNCHANGED <<graph, graphVars, libVars, parameters, pc, raised, preprocessing, pulse_queue,
                   current_optimal_path, current_optimal_objective, optimal_path,
                   optimal_objective, evaluated, ncalls, prep_ok, pushes>>

\* run(): the while loop finds the queue non-empty and pops it
RunPop ==
    /\ pc = "running"
    /\ stack = <<>>
    /\ Len(pulse_queue) > 0
    /\ LET popped == heappop(pulse_queue, cells)
           explore_path_info == popped.item.info
           last == explore_path_info.path[Len(explore_path_info.path)]
           order == order_nodes(preprocessing, graph.nodes[last].links)
       IN  /\ pulse_queue' = popped.heap
           /\ IF popped.raised # "none" THEN Raise(popped.raised)
              ELSE IF order.raised # "none" THEN Raise(order.raised)
              ELSE /\ stack' = << Frame("continue", "loop", last, explore_path_info,
                                        0, order.nodes) >>
                   /\ UNCHANGED <<pc, raised>>
    /\ UNCHANGED <<graph, graphVars, libVars, parameters, preprocessing, current_optimal_path,
                   current_optimal_objective, optimal_path, optimal_objective, cells,
                   evaluated, ncalls, prep_ok, pushes>>

\* run() returning with the path assigned and the objective left as it was
RunReturnPathOnly ==
    /\ pc = "running"
    /\ stack = <<>>
    /\ Len(pulse_queue) = 0
    /\ optimal_path' = current_optimal_path
    /\ pc' = "idle"
    /\ UNCHANGED <<graph, graphVars, libVars, parameters, raised, preprocessing, pulse_queue,
                   current_optimal_path, current_optimal_objective, optimal_objective,
                   cells, stack, evaluated, ncalls, prep_ok, pushes>>

\* run(): the while loop finds the queue empty; the incumbent is the answer
RunReturn ==
    /\ pc = "running"
    /\ stack = <<>>
    /\ Len(pulse_queue) = 0
    /\ optimal_path' = current_optimal_path
    /\ optimal_objective' = current_optimal_objective
    /\ pc' = "idle"
    /\ UNCHANGED <<graph, graphVars, libVars, parameters, raised, preprocessing, pulse_queue,
                   current_optimal_path, current_optimal_objective, cells, stack,
                   evaluated, ncalls, prep_ok, pushes>>

Next ==
    \/ Construct
    \/ Preprocess
    \/ RunBegin
    \/ PropagateEnter
    \/ PropagateLoop
    \/ RunPop
    \/ RunReturn

Spec == Init /\ [][Next]_vars

\* ------------------------------------------- reference: the true optimum
\* the reference side constraint on a complete path: its reliability at
\* T_max, from the sums of its links' means and variances
SatisfiesConstraints(g, p, q) ==
    \/ \A i \in 1..Len(p.pruning_functions) : p.pruning_functions[i] # "prune_feasibility"
    \/ ~Infeasible(PathSum(g, q, "mean", "time"), PathSum(g, q, "variance", "time"))

FeasiblePaths(g, p) ==
    {q \in SimplePaths(g, p.source_node, p.target_node) : SatisfiesConstraints(g, p, q)}

TrueOptimum(g, p) ==
    LET costs == {PathSum(g, q, "cost", "None") : q \in FeasiblePaths(g, p)}
    IN  IF costs = {} THEN Inf ELSE SetMin(costs)

\* the first link get_link_keys finds: of the first node that has links, the
\* first one
FirstLinked(g) == SetMin({u \in NodeIds(g) : Len(g.nodes[u].links) > 0})

HasLinks(g) == \E u \in NodeIds(g) : Len(g.nodes[u].links) > 0

\* some requested preprocessing name is not in the schema of the first link
\* (the empty schema for a graph without links)
NotInSchema(g, p) ==
    LET link == g.nodes[FirstLinked(g)].links[1].link
    IN  \/ \E i \in 1..Len(p.prep_deterministic_weights) :
              ~HasLinks(g) \/ p.prep_deterministic_weights[i] \notin DOMAIN link.deterministic
        \/ \E i \in 1..Len(p.prep_random_weights) :
              LET w == p.prep_random_weights[i]
              IN  \/ ~HasLinks(g)
                  \/ w.rand_var \notin DOMAIN link.random
                  \/ \E j \in 1..Len(w.costs) : w.costs[j] \notin DOMAIN link.random[w.rand_var]

\* the criteria preprocess() is asked for
RequestsSomething(p) ==
    \/ Len(p.prep_deterministic_weights) > 0
    \/ \E i \in 1..Len(p.prep_random_weights) : Len(p.prep_random_weights[i].costs) > 0

ShortestVector(g, p, cost_key, rand_var) ==
    [v \in NodeIds(g) |-> ShortestCost(g, v, p.target_node, cost_key, rand_var)]

\* ------------------------------------------------------------- C1 .. C4
\* C1: with admissible pruning functions, after preprocess() and run() the
\* returned optimal_objective is the least objective over the simple
\* source-to-target paths that satisfy the side constraints, and optimal_path
\* is such a path, for every graph and every max_pulse_depth.
C1_ReturnsTrueOptimum ==
    (call = "run" /\ pc = "idle" /\ raised = "none" /\ prep_ok /\ args = DefaultArgs) =>
        /\ optimal_objective = TrueOptimum(graph, parameters)
        /\ optimal_objective < Inf =>
              /\ optimal_path \in FeasiblePaths(graph, parameters)
              /\ PathSum(graph, optimal_path, "cost", "None") = optimal_objective

C3_RunNeverRaises == raised # "TypeError"

\* C4: a run() with the default arguments in which no source-to-target path
\* survives pruning (nothing is queued) completes normally with
\* optimal_objective infinite and optimal_path empty.
C4_NoFeasiblePath ==
    (call = "run" /\ pc = "idle" /\ args = DefaultArgs /\ pushes = 0 /\ raised # "KeyError") =>
        /\ raised = "none"
        /\ optimal_objective = Inf
        /\ optimal_path = <<>>

\* C4 happens: the graph has source-to-target paths, preprocessing succeeded
\* and the run ended with every one of them pruned.
C4_Witness ==
    /\ call = "run"
    /\ pc = "idle"
    /\ args = DefaultArgs
    /\ prep_ok
    /\ pushes = 0
    /\ raised = "none"
    /\ parameters.max_pulse_depth = MaxDepth
    /\ SimplePaths(graph, parameters.source_node, parameters.target_node) # {}

\* ------------------------------------------------------------ C8 .. C10
\* C8: constructing the engine raises the invalid-configuration error exactly
\* when a requested preprocessing name is not in the schema of the graph's
\* first link (empty for a graph without links); the error is raised by the
\* constructor, never by preprocess() or run().
C8_InvalidConfiguration ==
    /\ call # "none" => (pc = "invalid" <=> NotInSchema(graph, parameters))
    /\ pc = "invalid" <=> raised = "ValueError"
    /\ raised = "ValueError" => call = "Pulse"

\* C8 happens: construction was refused on a graph that has links, for a
\* random-variable attribute its schema lacks.
C8_Witness ==
    /\ pc = "invalid"
    /\ HasLinks(graph)
    /\ parameters.prep_deterministic_weights = <<"cost">>

\* C9: preprocess() raises the unreachable-target failure whenever the
\* source's bound for a requested criterion is infinite (the target cannot be
\* reached from the source); otherwise it completes having stored, for each
\* requested deterministic key and each requested (random variable,
\* attribute), one vector: the shortest attribute sums to the target.
C9_Preprocess ==
    call = "preprocess" =>
        LET p == parameters
            unreachable == SimplePaths(graph, p.source_node, p.target_node) = {}
        IN  /\ raised \in {"none", "RuntimeError"}
            /\ raised = "RuntimeError" <=> (unreachable /\ RequestsSomething(p))
            /\ raised = "none" =>
                  /\ DOMAIN preprocessing.deterministic = SetOf(p.prep_deterministic_weights)
                  /\ \A k \in DOMAIN preprocessing.deterministic :
                        preprocessing.deterministic[k] = ShortestVector(graph, p, k, "None")
                  /\ DOMAIN preprocessing.random =
                        {p.prep_random_weights[i].rand_var : i \in 1..Len(p.prep_random_weights)}
                  /\ \A i \in 1..Len(p.prep_random_weights) :
                        LET w == p.prep_random_weights[i]
                        IN  /\ DOMAIN preprocessing.random[w.rand_var] = SetOf(w.costs)
                            /\ \A k \in SetOf(w.costs) :
                                  preprocessing.random[w.rand_var][k]
                                      = ShortestVector(graph, p, k, w.rand_var)

\* C9 happens: with only random-variable criteria requested, preprocess()
\* raised because the source cannot reach the target.
C9_Witness ==
    /\ call = "preprocess"
    /\ raised = "RuntimeError"
    /\ parameters.prep_deterministic_weights = <<>>
    /\ "time" \in DOMAIN preprocessing.random

\* C10: run() performs no propagation (no pruning-predicate call, no queue
\* insertion, no incumbent update) unless a preceding preprocess() call
\* completed without raising.
C10_PreprocessBeforeSearch ==
    (evaluated # <<>> \/ pushes > 0) => prep_ok

\* ----------------------------------------------------------------- C11
\* the bound vectors a preprocessing table holds, each with its place
BoundVectors(prep) ==
    {<<"deterministic", k, prep.deterministic[k]>> : k \in DOMAIN prep.deterministic}
    \cup UNION {{<<rv, k, prep.random[rv][k]>> : k \in DOMAIN prep.random[rv]} :
                rv \in DOMAIN prep.random}

\* C11: a preprocess() call that raises the unreachable-target failure leaves
\* no partial result: the preprocessing table holds no bound vector it did not
\* hold before the call, and the incumbent and the queue are unchanged.
C11_NoPartialResult ==
    [][(call' = "preprocess" /\ raised' = "RuntimeError") =>
          /\ BoundVectors(preprocessing') \subseteq BoundVectors(preprocessing)
          /\ current_optimal_path' = current_optimal_path
          /\ current_optimal_objective' = current_optimal_objective
          /\ pulse_queue' = pulse_queue]_vars

\* ------------------------------------------------- SpecGraph: the graph model
\* the node names drawn
Names == {"A", "B"}

\* the attribute values drawn
Weights == {10, 20}

\* how many nodes a graph may hold
MaxNodes == 3

\* how many add_link calls a behaviour makes
MaxLinkCalls == 2

\* how many mutating calls a behaviour makes after reverse_graph()
MaxMutations == 1

\* In SpecGraph a Link holds the identities (indices in dicts) of the two
\* dicts add_link was given, as the Python object holds references to them.
\* link.deterministic and link.random, read through their references
Deterministic(link, ds) == ds[link.deterministic]

Random(link, ds) == ds[link.random]

\* the links of g with the attribute values they carry, as get_links_info
\* gives them: (u, v, deterministic, random)
LinkSet(g, ds) ==
    LET ls == get_links_info(g)
    IN  {<<ls[i].u, ls[i].v, Deterministic(ls[i].link, ds), Random(ls[i].link, ds)>> :
            i \in 1..Len(ls)}

\* the node names by index
NodeNames(g) == [i \in NodeIds(g) |-> g.nodes[i].name]

\* the graphs a call may be made on
Targets == {"graph"} \cup (IF reversed_g = <<>> THEN {} ELSE {"reversed_g"})

Target(which) == IF which = "graph" THEN graph ELSE reversed_g

SetTarget(which, g) ==
    /\ graph' = (IF which = "graph" THEN g ELSE graph)
    /\ reversed_g' = (IF which = "reversed_g" THEN g ELSE reversed_g)

\* the engine's variables but ncalls
inertVars == <<parameters, pc, raised, preprocessing, pulse_queue, current_optimal_path,
               current_optimal_objective, optimal_path, optimal_objective, cells, stack,
               evaluated, prep_ok, pushes>>

\* a call that changes a graph: any number while the graph is built, at most
\* MaxMutations once it has been reversed
Mutation ==
    /\ reversed_g # <<>> => ncalls < MaxMutations
    /\ ncalls' = IF reversed_g # <<>> THEN ncalls + 1 ELSE ncalls

InitGraph ==
    /\ graph = EmptyGraph
    /\ call = "none"
    /\ args = <<>>
    /\ ret = <<>>
    /\ parameters = <<>>
    /\ pc = "new"
    /\ raised = "none"
    /\ preprocessing = <<>>
    /\ pulse_queue = <<>>
    /\ current_optimal_path = <<>>
    /\ current_optimal_objective = Inf
    /\ optimal_path = <<>>
    /\ optimal_objective = Inf
    /\ cells = <<>>
    /\ stack = <<>>
    /\ evaluated = <<>>
    /\ ncalls = 0
    /\ prep_ok = FALSE
    /\ pushes = 0
    /\ reversed_g = <<>>
    /\ dicts = <<>>

\* g.create_node(name)
GraphCreateNode ==
    \E which \in Targets, name \in Names :
        /\ NodeCount(Target(which)) < MaxNodes
        /\ SetTarget(which, create_node(Target(which), name))
        /\ call' = "create_node"
        /\ args' = [which |-> which, name |-> name]
        /\ ret' = NodeCount(Target(which))
        /\ Mutation
        /\ UNCHANGED <<dicts, inertVars>>

\* g.find_node(name)
GraphFindNode ==
    \E which \in Targets, name \in Names :
        /\ call' = "find_node"
        /\ args' = [which |-> which, name |-> name]
        /\ ret' = find_node(Target(which), name)
        /\ UNCHANGED <<graph, reversed_g, dicts, engineVars>>

\* g.find_or_add_node(name)
GraphFindOrAddNode ==
    \E which \in Targets, name \in Names :
        LET r == find_or_add_node(Target(which), name)
        IN  /\ NodeCount(r[1]) <= MaxNodes
            /\ SetTarget(which, r[1])
            /\ call' = "find_or_add_node"
            /\ args' = [which |-> which, name |-> name]
            /\ ret' = r[2]
            /\ IF r[1] = Target(which) THEN UNCHANGED ncalls ELSE Mutation
            /\ UNCHANGED <<dicts, inertVars>>

\* g.add_link(src_name, dst_name, deterministic={"weight": w},
\* random={"time": {"mu": w}}): the two dict literals are new objects
GraphAddLink ==
    \E which \in Targets, src_name \in Names, dst_name \in Names, w \in Weights :
        LET deterministic == Len(dicts) + 1
            random == Len(dicts) + 2
            g == add_link(Target(which), src_name, dst_name, deterministic, random)
        IN  /\ Len(dicts) < 2 * MaxLinkCalls
            /\ NodeCount(g) <= MaxNodes
            /\ dicts' = dicts \o << [weight |-> w], [time |-> [mu |-> w]] >>
            /\ SetTarget(which, g)
            /\ call' = "add_link"
            /\ args' = [which |-> which, src_name |-> src_name, dst_name |-> dst_name,
                        deterministic |-> [weight |-> w], random |-> [time |-> [mu |-> w]]]
            /\ ret' = <<>>
            /\ Mutation
            /\ UNCHANGED inertVars

\* reversed_g = graph.reverse_graph()
GraphReverse ==
    /\ reversed_g = <<>>
    /\ reversed_g' = reverse_graph(graph)
    /\ call' = "reverse_graph"
    /\ args' = <<>>
    /\ ret' = <<>>
    /\ UNCHANGED <<graph, dicts, engineVars>>

\* graph.reverse_graph().reverse_graph()
GraphReverseTwice ==
    /\ call' = "reverse_graph_twice"
    /\ args' = <<>>
    /\ ret' = reverse_graph(reverse_graph(graph))
    /\ UNCHANGED <<graph, reversed_g, dicts, engineVars>>

\* g.nodes[u].links[v].deterministic["weight"] = w, or
\* g.nodes[u].links[v].random["time"]["mu"] = w, on a graph or its reverse
GraphSetAttribute ==
    \E which \in Targets, kind \in {"deterministic", "random"}, w \in Weights :
        \E u \in NodeIds(Target(which)), v \in NodeIds(Target(which)) :
            /\ reversed_g # <<>>
            /\ HasLink(Target(which), u, v)
            /\ LET link == GetLink(Target(which), u, v)
               IN  dicts' = IF kind = "deterministic"
                            THEN [dicts EXCEPT ![link.deterministic] = [weight |-> w]]
                            ELSE [dicts EXCEPT ![link.random] = [time |-> [mu |-> w]]]
            /\ call' = "set_attribute"
            /\ args' = [which |-> which, u |-> u, v |-> v, kind |-> kind, value |-> w]
            /\ ret' = <<>>
            /\ Mutation
            /\ UNCHANGED <<graph, reversed_g, inertVars>>

NextGraph ==
    \/ GraphCreateNode
    \/ GraphFindNode
    \/ GraphFindOrAddNode
    \/ GraphAddLink
    \/ GraphReverse
    \/ GraphReverseTwice
    \/ GraphSetAttribute

SpecGraph == InitGraph /\ [][NextGraph]_vars

\* --------------------------------------------------------------- C12 .. C14
\* the links of a set of (u, v, deterministic, random), each turned around
Flipped(links) == {<<l[2], l[1], l[3], l[4]>> : l \in links}

\* C12: for every graph built by create_node and add_link calls,
\* reverse_graph() returns a graph with as many nodes, the same name at every
\* index and the same name->index lookup, which has a link v->u carrying the
\* attributes of u->v for every link u->v of the original, and no other link.
C12_ReverseGraph ==
    call = "reverse_graph" =>
        /\ NodeCount(reversed_g) = NodeCount(graph)
        /\ NodeNames(reversed_g) = NodeNames(graph)
        /\ reversed_g.name_to_index = graph.name_to_index
        /\ LinkSet(reversed_g, dicts) = Flipped(LinkSet(graph, dicts))

\* C13: reversing a graph twice gives a graph with the same node names at the
\* same indices and the same set of (source, destination) links with the same
\* deterministic and random attributes as the original.
C13_ReverseTwice ==
    call = "reverse_graph_twice" =>
        /\ NodeNames(ret) = NodeNames(graph)
        /\ LinkSet(ret, dicts) = LinkSet(graph, dicts)

\* what can be read off a graph: its nodes' names, its lookup, its links and
\* the attribute values they carry
Contents(g, ds) ==
    [names |-> NodeNames(g), name_to_index |-> g.name_to_index, links |-> LinkSet(g, ds)]

\* C14: the graph reverse_graph() returned is independent of the original: a
\* later call that creates a node, adds or overwrites a link or changes an
\* attribute value stored on a link of the one changes neither the nodes nor
\* the links nor the link attribute values of the other.
C14_ReverseIndependent ==
    [][(/\ reversed_g # <<>>
        /\ call' \in {"create_node", "find_or_add_node", "add_link", "set_attribute"}) =>
          /\ args'.which = "reversed_g" =>
                Contents(graph', dicts') = Contents(graph, dicts)
          /\ args'.which = "graph" =>
                Contents(reversed_g', dicts') = Contents(reversed_g, dicts)]_vars

\* --------------------------------------------------------------- C15 .. C18
\* every node of g is in h at the same index under the same name
NodesKept(g, h) ==
    \A i \in NodeIds(g) : i \in NodeIds(h) /\ h.nodes[i].name = g.nodes[i].name

\* the indices of g are 0 .. n-1
Dense(g) == NodeIds(g) = 0..(NodeCount(g) - 1)

C16_NamesUnique ==
    /\ \A i, j \in NodeIds(graph) : graph.nodes[i].name = graph.nodes[j].name => i = j
    /\ \A i \in NodeIds(graph) : find_node(graph, graph.nodes[i].name) = i
    /\ Cardinality(DOMAIN graph.name_to_index) = NodeCount(graph)

\* the links of a set other than the one from u to v
Others(links, u, v) == {l \in links : l[1] # u \/ l[2] # v}

\* C17: add_link(src, dst, det, rand) creates each endpoint only if no node
\* of that name exists; afterwards the graph holds exactly one link for the
\* ordered pair (src, dst) (the nodes the two names are looked up to),
\* carrying det and rand in place of any earlier link of that pair, and every
\* other link, the opposite direction (dst, src) included, is unchanged.
C17_AddLink ==
    [][call' = "add_link" =>
          LET g == IF args'.which = "graph" THEN graph ELSE reversed_g
              h == IF args'.which = "graph" THEN graph' ELSE reversed_g'
              u == find_node(h, args'.src_name)
              v == find_node(h, args'.dst_name)
              absent == {n \in {args'.src_name, args'.dst_name} : find_node(g, n) = -1}
              ls == get_links_info(h)
          IN  /\ NodeCount(h) = NodeCount(g) + Cardinality(absent)
              /\ NodesKept(g, h)
              /\ \A n \in {args'.src_name, args'.dst_name} \ absent :
                    find_node(h, n) = find_node(g, n)
              /\ \A n \in absent : find_node(h, n) >= NodeCount(g)
              /\ Cardinality({i \in 1..Len(ls) : ls[i].u = u /\ ls[i].v = v}) = 1
              /\ Deterministic(GetLink(h, u, v), dicts') = args'.deterministic
              /\ Random(GetLink(h, u, v), dicts') = args'.random
              /\ Others(LinkSet(h, dicts'), u, v) = Others(LinkSet(g, dicts), u, v)]_vars

\* C17 happens: a second add_link call for the same pair of existing nodes
\* has replaced the link of the first one, which carried another value.
C17_Witness ==
    /\ call = "add_link"
    /\ reversed_g = <<>>
    /\ Len(dicts) = 4
    /\ dicts[1] # dicts[3]
    /\ args.src_name # args.dst_name
    /\ LinkSet(graph, dicts) = {<<find_node(graph, args.src_name),
                                  find_node(graph, args.dst_name),
                                  args.deterministic, args.random>>}

\* some node of g bears the name
Named(g, name) == \E i \in NodeIds(g) : g.nodes[i].name = name

\* C18: find_node(name) returns -1 for a name with no node and never changes
\* the graph; find_or_add_node(name) returns find_node(name) and leaves the
\* graph unchanged when that is not -1, and otherwise creates exactly one
\* node, at index n (the previous node count), and returns n; calling it
\* again with the same name returns the same index.
C18_FindOrAdd ==
    [][/\ call' = "find_node" =>
             LET g == IF args'.which = "graph" THEN graph ELSE reversed_g
             IN  /\ <<graph', reversed_g', dicts'>> = <<graph, reversed_g, dicts>>
                 /\ ~Named(g, args'.name) => ret' = -1
                 /\ Named(g, args'.name) => ret' \in NodeIds(g) /\ g.nodes[ret'].name = args'.name
       /\ call' = "find_or_add_node" =>
             LET g == IF args'.which = "graph" THEN graph ELSE reversed_g
                 h == IF args'.which = "graph" THEN graph' ELSE reversed_g'
                 n == find_node(g, args'.name)
             IN  /\ n # -1 => ret' = n /\ h = g
                 /\ n = -1 =>
                       /\ ret' = NodeCount(g)
                       /\ NodeCount(h) = NodeCount(g) + 1
                       /\ h.nodes[ret'] = Node(args'.name)
                       /\ \A i \in NodeIds(g) : h.nodes[i] = g.nodes[i]
                 /\ find_or_add_node(h, args'.name) = <<h, ret'>>
                 /\ find_node(h, args'.name) = ret'
                 /\ dicts' = dicts
                 /\ args'.which = "graph" => reversed_g' = reversed_g
                 /\ args'.which = "reversed_g" => graph' = graph]_vars

\* C18 happens: find_or_add_node has returned 2, the index of a node without
\* links that is the last of three, in a graph where find_node of the other
\* name is 1.
C18_Witness ==
    /\ call = "find_or_add_node"
    /\ args.which = "graph"
    /\ ret = 2
    /\ NodeCount(graph) = 3
    /\ graph.nodes[2] = Node(args.name)
    /\ \E name \in Names \ {args.name} : find_node(graph, name) = 1

\* ----------------------------------------------------------------- C19
\* the path a frame's PathInformation stands for: on entry to
\* _propagate_pulse the node is not appended yet
FramePath(f) == IF f.stage = "enter" THEN Append(f.info.path, f.node) ELSE f.info.path

\* the accumulators of a PathInformation are the sums along the path
AccumulatorsOf(info, path) ==
    /\ info.deterministic["cost"] = PathSum(graph, path, "cost", "None")
    /\ cells[info.random["time"]].mean = PathSum(graph, path, "mean", "time")
    /\ cells[info.random["time"]].variance = PathSum(graph, path, "variance", "time")

\* C19: every expansion step hands the child its own copy of the path, the
\* deterministic accumulators and the random-variable accumulators: the
\* in-place update made while extending to one child changes neither the
\* parent's record nor what later siblings are handed, so the accumulator
\* values of every live record (and those a node's pruning predicates see)
\* are the sums along that record's own path from the source.
C19_CopyOnExtend ==
    /\ \A i \in 1..Len(stack) : AccumulatorsOf(stack[i].info, FramePath(stack[i]))
    /\ \A i \in 1..Len(pulse_queue) :
          AccumulatorsOf(pulse_queue[i].info, pulse_queue[i].info.path)

\* ----------------------------------------------------------------- C20
\* what the i-th pruning predicate answers at the node being entered, given
\* the present incumbent (of the predicates drawn only the last of a list
\* changes the incumbent, so each sees the incumbent the node was entered with)
Returns(i) ==
    Prune(parameters.pruning_functions[i], preprocessing, cells, parameters.target_node,
          current_optimal_path, current_optimal_objective, Top.node, Top.info)

\* the i-th predicate is the first to return true, none before it raising
FirstTrue(i) ==
    /\ Returns(i).raised = "none"
    /\ Returns(i).pruned
    /\ \A j \in 1..(i - 1) : Returns(j).raised = "none" /\ ~Returns(j).pruned

\* C20: at every propagated node the pruning predicates are invoked in list
\* order and evaluation stops at the first one that returns true: no later
\* predicate is invoked (no incumbent is recorded), the node is not appended
\* to the path, no successor is expanded and nothing is queued.
C20_ShortCircuit ==
    [][(pc = "running" /\ stack # <<>> /\ Top.stage = "enter") =>
          LET fs == parameters.pruning_functions
          IN  /\ Len(evaluated') <= Len(fs)
              /\ evaluated' = SubSeq(fs, 1, Len(evaluated'))
              /\ \A i \in 1..Len(fs) :
                    FirstTrue(i) =>
                        /\ evaluated' = SubSeq(fs, 1, i)
                        /\ current_optimal_path' = current_optimal_path
                        /\ current_optimal_objective' = current_optimal_objective
                        /\ stack' = Pop(stack)
                        /\ pulse_queue' = pulse_queue
                        /\ pushes' = pushes
                        /\ raised' = "none"
              /\ (\A i \in 1..Len(fs) : Returns(i).raised = "none" /\ ~Returns(i).pruned) =>
                    evaluated' = fs]_vars

\* C20 happens: after a successful preprocess() the first of two predicates
\* has pruned the node entered last, and the second was not invoked.
C20_Witness ==
    /\ call = "run"
    /\ prep_ok
    /\ raised = "none"
    /\ Len(parameters.pruning_functions) = 2
    /\ evaluated = <<parameters.pruning_functions[1]>>
    /\ current_optimal_objective < Inf

\* ----------------------------------------------------------------- C21
\* the depth _propagate_pulse was called with for a frame (the continuation
\* loop of run() is no propagation: -1)
DepthOf(f) == f.child_depth - 1

\* the path is longer than a branch the depth bound cuts, and begins with one:
\* max_pulse_depth + 1 nodes, none of them the target
Resumes(path) ==
    /\ Len(path) > parameters.max_pulse_depth + 1
    /\ \A k \in 1..(parameters.max_pulse_depth + 1) : path[k] # parameters.target_node

\* C21: propagation is depth-bounded: no node is propagated at a depth
\* greater than max_pulse_depth; a non-target node reached at depth
\* max_pulse_depth is neither expanded nor queued, and no path that extends
\* the branch cut there is propagated later in the run.
C21_DepthBounded ==
    [][/\ \A i \in 1..Len(stack') :
             /\ DepthOf(stack'[i]) <= parameters.max_pulse_depth
             /\ ~Resumes(FramePath(stack'[i]))
       /\ \A i \in 1..Len(pulse_queue') : ~Resumes(pulse_queue'[i].info.path)
       /\ (/\ pc = "running"
           /\ stack # <<>>
           /\ Top.stage = "enter"
           /\ Top.node # parameters.target_node
           /\ DepthOf(Top) = parameters.max_pulse_depth) =>
             /\ stack' \in {Pop(stack), <<>>}
             /\ pulse_queue' = pulse_queue
             /\ pushes' = pushes]_vars

\* C21 happens: with max_pulse_depth = 1 a run after a successful
\* preprocess() has ended without an answer although a feasible path exists;
\* each of them was cut at its second node.
C21_Witness ==
    /\ call = "run"
    /\ pc = "idle"
    /\ raised = "none"
    /\ prep_ok
    /\ args = DefaultArgs
    /\ parameters.max_pulse_depth = 1
    /\ TrueOptimum(graph, parameters) < Inf
    /\ optimal_objective = Inf
    /\ pushes = 0

\* ----------------------------------------------------------------- C22
\* how often x occurs in seq
Count(x, seq) == Cardinality({k \in 1..Len(seq) : seq[k] = x})

\* the same entries, each as often
SameEntries(a, b) == \A x \in SetOf(a) \cup SetOf(b) : Count(x, a) = Count(x, b)

\* the score the configured pulse_score gives a path
ScoreOf(info) == pulse_score(parameters.pulse_score, preprocessing, info).score

\* todo lists every successor of node once, in ascending exploration_order
OrderedSuccessors(todo, node) ==
    /\ Len(todo) = Len(graph.nodes[node].links)
    /\ SetOf(todo) = {v \in NodeIds(graph) : HasLink(graph, node, v)}
    /\ \A a, b \in 1..Len(todo) :
          a < b => exploration_order(preprocessing, todo[a])
                      <= exploration_order(preprocessing, todo[b])

\* C22: the continuation protocol.  run() starts one propagation, from the
\* source at depth 0; then it repeatedly removes the entry of lowest score
\* from the queue (so the entries are processed in non-decreasing score
\* order) and, for the removed path, re-invokes propagation at depth 0 for
\* every successor of the path's last node that is not on the path, taking
\* the successors in ascending exploration_order.
C22_ContinuationProtocol ==
    [][/\ (pc = "idle" /\ pc' = "running") =>
             /\ Len(stack') = 1
             /\ stack'[1].kind = "propagate"
             /\ stack'[1].stage = "enter"
             /\ stack'[1].node = parameters.source_node
             /\ stack'[1].info.path = <<>>
             /\ DepthOf(stack'[1]) = 0
       /\ \A i \in 1..Len(stack') :
             stack'[i].kind = "continue" <=> (i = 1 /\ stack'[1].kind # "propagate")
       /\ (pc = "running" /\ stack = <<>> /\ Len(pulse_queue) > 0 /\ pc' = "running") =>
             /\ Len(stack') = 1
             /\ stack'[1].kind = "continue"
             /\ \E i \in 1..Len(pulse_queue) :
                   /\ pulse_queue[i].info = stack'[1].info
                   /\ \A j \in 1..Len(pulse_queue) : pulse_queue[j].score >= pulse_queue[i].score
                   /\ SameEntries(pulse_queue', Remove(pulse_queue, i))
             /\ stack'[1].node = stack'[1].info.path[Len(stack'[1].info.path)]
             /\ OrderedSuccessors(stack'[1].todo, stack'[1].node)
       /\ (stack' # <<>> /\ stack'[1].kind = "continue") =>
             \A j \in 1..Len(pulse_queue') : pulse_queue'[j].score >= ScoreOf(stack'[1].info)
       /\ (pc = "running" /\ stack # <<>> /\ Top.kind = "continue" /\ Top.todo # <<>>) =>
             LET v == Head(Top.todo)
                 n == Len(stack)
             IN  IF \E k \in 1..Len(Top.info.path) : Top.info.path[k] = v
                 THEN stack' = [stack EXCEPT ![n].todo = Tail(@)]
                 ELSE /\ Len(stack') = n + 1
                      /\ stack'[n] = [Top EXCEPT !.todo = Tail(@)]
                      /\ stack'[n + 1].kind = "propagate"
                      /\ stack'[n + 1].stage = "enter"
                      /\ stack'[n + 1].node = v
                      /\ stack'[n + 1].info.path = Top.info.path
                      /\ DepthOf(stack'[n + 1]) = 0]_vars

\* C22 happens: of two queued paths the one of lower score has been removed
\* and its last node has a successor to re-propagate from.
C22_Witness ==
    /\ pc = "running"
    /\ Len(stack) = 1
    /\ stack[1].kind = "continue"
    /\ Len(pulse_queue) = 1
    /\ pulse_queue[1].score > ScoreOf(stack[1].info)
    /\ stack[1].todo # <<>>
    /\ \A k \in 1..Len(stack[1].info.path) : stack[1].info.path[k] # Head(stack[1].todo)

\* ----------------------------------------------------------------- C23
\* a step of a call of run() that has begun
RunStep == PropagateEnter \/ PropagateLoop \/ RunPop \/ RunReturn

\* run() is sequential code on one thread: once called, it executes its next
\* statement
SpecLive == Init /\ [][Next]_vars /\ WF_vars(RunStep)

\* every call of run() ends, by returning or by raising
C23_RunEnds == (pc = "running") ~> (pc = "idle")

\* run() returns only from an empty queue
C23_ReturnsOnEmptyQueue ==
    [][(pc = "running" /\ pc' = "idle" /\ raised' = "none") => pulse_queue' = <<>>]_vars

\* C23: for every finite graph, cycles included, and every max_pulse_depth,
\* a call of run() with terminating callbacks eventually terminates, and at
\* its termination the continuation queue is empty.
C23_TerminatesWithEmptyQueue == (pc = "running") ~> (pc = "idle" /\ pulse_queue = <<>>)

\* ----------------------------------------------------------------- C24
incumbent == <<current_optimal_path, current_optimal_objective>>

answer == <<optimal_path, optimal_objective>>

\* C24: the engine's answer is the incumbent.  When run() returns,
\* optimal_path = current_optimal_path and optimal_objective =
\* current_optimal_objective.  Between run()'s assignment of the incumbent
\* from its arguments and its return the engine's own code never writes the
\* incumbent: it changes only in a step that calls the pruning predicates,
\* and only if prune_bounds was among those called; popping a path from the
\* queue never changes it.  The answer is written nowhere else.
C24_AnswerIsIncumbent ==
    [][/\ (pc = "idle" /\ pc' = "running") =>
             incumbent' = <<args'.init_optimal_path, args'.init_objective>>
       /\ (pc = "running" /\ pc' = "idle" /\ raised' = "none") =>
             /\ incumbent' = incumbent
             /\ answer' = incumbent
       /\ (pc = "running" /\ incumbent' # incumbent) =>
             /\ stack # <<>>
             /\ Top.stage = "enter"
             /\ \E i \in 1..Len(evaluated') : evaluated'[i] = "prune_bounds"
       /\ (pc = "running" /\ stack = <<>>) => incumbent' = incumbent
       /\ answer' # answer => (pc = "running" /\ pc' = "idle" /\ raised' = "none")]_vars

\* C24 happens: a run that replaced the incumbent it was given, popped a
\* queued path and returned.
C24_Witness ==
    /\ call = "run"
    /\ pc = "idle"
    /\ raised = "none"
    /\ pushes > 0
    /\ incumbent # <<args.init_optimal_path, args.init_objective>>
    /\ answer = incumbent

\* ----------------------------------------------------------------- C25
\* a path from the source to the target along links, no node twice
CompletePath(path) ==
    /\ path # <<>>
    /\ path[1] = parameters.source_node
    /\ path[Len(path)] = parameters.target_node
    /\ ~HasRepeat(path)
    /\ IsPath(graph, path)

\* C25: every entry ever inserted into the continuation queue holds a path
\* that starts at the source, ends at the target, repeats no node and
\* follows existing links (an entry is in the queue from the step that
\* inserts it); and the target is never expanded during propagation: the
\* only frame that loops over the target's outgoing links is the one run()
\* makes for a popped path.
C25_QueuedPaths ==
    /\ \A i \in 1..Len(pulse_queue) : CompletePath(pulse_queue[i].info.path)
    /\ \A i \in 1..Len(stack) :
          (stack[i].stage = "loop" /\ stack[i].node = parameters.target_node)
             <=> stack[i].kind = "continue"

\* C25 happens: two paths were queued, one of them popped, and a successor
\* of the target is being propagated from it.
C25_Witness ==
    /\ pc = "running"
    /\ pushes = 2
    /\ Len(pulse_queue) = 1
    /\ Len(stack) = 2
    /\ stack[1].kind = "continue"
    /\ Len(stack[1].info.path) = 3

\* ----------------------------------------------------------------- C26
\* run() is past its initial propagation: it is at the while loop, or in
\* the body of the loop for a popped path
Continuation(stk) == stk = <<>> \/ stk[1].kind = "continue"

\* C26: once the initial propagation from the source has returned, no entry
\* is inserted into the continuation queue again.  Every path resumed in the
\* continuation phase contains the target, so no propagation started there
\* arrives at the target; hence the queue loses one entry with each pop and
\* gains none, and with the reference bounds predicate among the pruning
\* functions the incumbent is not changed in the continuation phase.
C26_NoInsertionInContinuation ==
    [][(pc = "running" /\ Continuation(stack)) =>
          /\ pc' = "running" => Continuation(stack')
          /\ pushes' = pushes
          /\ Len(pulse_queue') <= Len(pulse_queue)
          /\ (stack = <<>> /\ Len(pulse_queue) > 0) =>
                Len(pulse_queue') = Len(pulse_queue) - 1
          /\ \A i \in 1..Len(stack') :
                /\ OnPath(parameters.target_node, stack'[i].info.path)
                /\ i > 1 => stack'[i].node # parameters.target_node
          /\ (\E k \in 1..Len(parameters.pruning_functions) :
                 parameters.pruning_functions[k] = "prune_bounds") =>
                incumbent' = incumbent]_vars

\* C26 happens: in the continuation phase a successor of the target was not
\* pruned and is expanding its own links.
C26_Witness ==
    /\ pc = "running"
    /\ pushes > 0
    /\ Len(stack) >= 2
    /\ stack[1].kind = "continue"
    /\ stack[2].stage = "loop"
    /\ stack[2].todo # <<>>

\* ----------------------------------------------------------------- C27
\* the predicates listed before prune_bounds
BeforeBounds(fs) ==
    {k \in 1..Len(fs) : \A j \in 1..k : fs[j] # "prune_bounds"}

HasBounds(fs) == \E k \in 1..Len(fs) : fs[k] = "prune_bounds"

\* C27: with the reference bounds predicate among the pruning functions,
\* current_optimal_objective never increases in the course of a run; and
\* whenever the incumbent is updated, current_optimal_path is a path of the
\* graph from the source to the target (the one under evaluation, with the
\* target appended), the sum of its links' deterministic cost is
\* current_optimal_objective, no predicate listed before prune_bounds
\* rejected it, and it satisfies the side constraint those predicates test.
C27_IncumbentSound ==
    [][(pc = "running" /\ HasBounds(parameters.pruning_functions)) =>
          /\ current_optimal_objective' <= current_optimal_objective
          /\ incumbent' # incumbent =>
                /\ current_optimal_objective' < current_optimal_objective
                /\ current_optimal_path' = Append(Top.info.path, Top.node)
                /\ CompletePath(current_optimal_path')
                /\ PathSum(graph, current_optimal_path', "cost", "None")
                      = current_optimal_objective'
                /\ \A k \in BeforeBounds(parameters.pruning_functions) :
                      /\ k <= Len(evaluated')
                      /\ ~Prune(parameters.pruning_functions[k], preprocessing, cells,
                                parameters.target_node, current_optimal_path,
                                current_optimal_objective, Top.node, Top.info).pruned
                /\ SatisfiesConstraints(graph, parameters, current_optimal_path')]_vars

\* C27 happens: a run that was handed a feasible path as its incumbent has
\* replaced it by a cheaper one that prune_feasibility, listed first,
\* let through.
C27_Witness ==
    /\ call = "run"
    /\ pc = "running"
    /\ args # DefaultArgs
    /\ parameters.pruning_functions = <<"prune_feasibility", "prune_bounds">>
    /\ current_optimal_objective < args.init_objective
    /\ current_optimal_path # args.init_optimal_path

====
